---- MODULE Spec2Model ----
(***************************************************************************)
(* Model of the entity models LedgerEntry and TradingTicker and of the     *)
(* FundingLoan wire layout, together with the Model base they extend.      *)
(*                                                                         *)
(* JavaScript values are tagged records; a string is the sequence of its   *)
(* characters; a number is held in tenths (Num(505) is 50.5), so that the  *)
(* decimal amounts of the wire format stay integers.                       *)
(***************************************************************************)
EXTENDS Integers, Sequences, FiniteSets, TLC

VARIABLES op, entity, data, out, invoked

vars == <<op, entity, data, out, invoked>>

---------------------------------------------------------------------------
(* Bounds of the checked instance *)

MaxPieces == 3      \* pieces concatenated into a description
MaxExtra == 1       \* wire slots past the last mapped position
MaxBatch == 3       \* records in a batch
ValMod == 5         \* distinct numeric values in a populated record

---------------------------------------------------------------------------
(* JavaScript values *)

Undef == [t |-> "undefined"]
Null == [t |-> "null"]
Num(n) == [t |-> "num", n |-> n]
Str(s) == [t |-> "str", s |-> s]
Arr(a) == [t |-> "arr", a |-> a]
Obj(o) == [t |-> "obj", o |-> o]
TypeError == [t |-> "throw"]

IsUnset(v) == v \in {Undef, Null}

isString(v) == v.t = "str"

isArray(v) == v.t = "arr"

isObject(v) == v.t \in {"arr", "obj"}

isEmpty(v) ==
  CASE v.t = "str" -> Len(v.s) = 0
    [] v.t = "arr" -> Len(v.a) = 0
    [] v.t = "obj" -> DOMAIN v.o = {}
    [] OTHER -> TRUE

falsy(v) == v \in {Undef, Null, Num(0), Str(<<>>)}

---------------------------------------------------------------------------
(* String.prototype.split, trim, substring on character sequences *)

Occurs(s, sep, k) ==
  /\ k >= 1
  /\ k + Len(sep) - 1 <= Len(s)
  /\ SubSeq(s, k, k + Len(sep) - 1) = sep

RECURSIVE split(_, _)
split(s, sep) ==
  LET hits == {k \in 1..Len(s) : Occurs(s, sep, k)}
  IN IF hits = {}
       THEN <<s>>
       ELSE LET k == CHOOSE h \in hits : \A j \in hits : h <= j
            IN <<SubSeq(s, 1, k - 1)>> \o split(SubSeq(s, k + Len(sep), Len(s)), sep)

IsSpace(c) == c \in {" ", "\t"}

RECURSIVE trimStart(_)
trimStart(s) ==
  IF s # <<>> /\ IsSpace(Head(s)) THEN trimStart(Tail(s)) ELSE s

RECURSIVE trimEnd(_)
trimEnd(s) ==
  IF s # <<>> /\ IsSpace(s[Len(s)]) THEN trimEnd(SubSeq(s, 1, Len(s) - 1)) ELSE s

trim(s) == trimEnd(trimStart(s))

Clamp(i, n) == IF i < 0 THEN 0 ELSE IF i > n THEN n ELSE i

substring(s, start, end) ==
  LET a == Clamp(start, Len(s))
      b == Clamp(end, Len(s))
      lo == IF a <= b THEN a ELSE b
      hi == IF a <= b THEN b ELSE a
  IN SubSeq(s, lo + 1, hi)

---------------------------------------------------------------------------
(* Field definition tables, in declaration order *)

NoPos == -1

F(name, pos) == [name |-> name, pos |-> pos]

\* mts read from slot 2
fields_mtsAt2 ==
  << F("id", 0), F("currency", 1), F("mts", 2), F("amount", 5),
     F("balance", 6), F("description", 8), F("wallet", NoPos) >>

fields ==
  << F("id", 0), F("currency", 1), F("mts", 3), F("amount", 5),
     F("balance", 6), F("description", 8), F("wallet", NoPos) >>

FIELD_INDEX_MAPPING ==
  << F("symbol", 0), F("bid", 1), F("bidSize", 2), F("ask", 3),
     F("askSize", 4), F("dailyChange", 5), F("dailyChangePerc", 6),
     F("lastPrice", 7), F("volume", 8), F("high", 9), F("low", 10) >>

\* rateReal placed in the slot of renew
FundingLoanArrayData_dupSlot ==
  << F("id", 0), F("symbol", 1), F("side", 2), F("mtsCreate", 3),
     F("mtsUpdate", 4), F("mtsOpening", 13), F("mtsLastPayout", 14),
     F("amount", 5), F("flags", 6), F("status", 7), F("type", 8),
     F("rate", 11), F("rateReal", 18), F("period", 12), F("notify", 15),
     F("hidden", 16), F("renew", 18), F("noClose", 20) >>

FundingLoanArrayData ==
  << F("id", 0), F("symbol", 1), F("side", 2), F("mtsCreate", 3),
     F("mtsUpdate", 4), F("mtsOpening", 13), F("mtsLastPayout", 14),
     F("amount", 5), F("flags", 6), F("status", 7), F("type", 8),
     F("rate", 11), F("rateReal", 19), F("period", 12), F("notify", 15),
     F("hidden", 16), F("renew", 18), F("noClose", 20) >>

TableOf(e) ==
  CASE e = "LedgerEntry" -> fields
    [] e = "TradingTicker" -> FIELD_INDEX_MAPPING
    [] e = "FundingLoan" -> FundingLoanArrayData

Names(tbl) == {tbl[i].name : i \in DOMAIN tbl}

Mapped(tbl) == {tbl[i].name : i \in {j \in DOMAIN tbl : tbl[j].pos # NoPos}}

PosOf(tbl, f) == tbl[CHOOSE i \in DOMAIN tbl : tbl[i].name = f].pos

Positions(tbl) == {PosOf(tbl, f) : f \in Mapped(tbl)}

MaxPos(tbl) == CHOOSE p \in Positions(tbl) : \A q \in Positions(tbl) : q <= p

\* a[p] of a JavaScript array, zero-based; undefined outside the array
At(a, p) == IF p >= 0 /\ p + 1 <= Len(a) THEN a[p + 1] ELSE Undef

---------------------------------------------------------------------------
(* Model base: shape detection, extraction, serialization *)

isCollection(d) ==
  /\ isArray(d)
  /\ Len(d.a) > 0
  /\ \A i \in 1..Len(d.a) : isObject(d.a[i])

\* one positional sequence -> named-field record
unserializeOne(a, tbl) ==
  [f \in Names(tbl) |-> IF PosOf(tbl, f) = NoPos THEN Undef ELSE At(a, PosOf(tbl, f))]

\* one input item of any shape -> canonical record
normalizeOne(d, tbl) ==
  CASE d.t = "arr" -> unserializeOne(d.a, tbl)
    [] d.t = "obj" -> [f \in Names(tbl) |-> IF f \in DOMAIN d.o THEN d.o[f] ELSE Undef]
    [] OTHER -> [f \in Names(tbl) |-> Undef]

Rec(r) == [t |-> "rec", r |-> r]
List(l) == [t |-> "list", l |-> l]

unserializeWithDataDefinition(d, tbl) ==
  IF isCollection(d)
    THEN List([i \in 1..Len(d.a) |-> normalizeOne(d.a[i], tbl)])
    ELSE Rec(normalizeOne(d, tbl))

\* named-field record -> positional sequence; slots no field maps to are holes
serialize(r, tbl) ==
  [i \in 1..(MaxPos(tbl) + 1) |->
     IF \E f \in Mapped(tbl) : PosOf(tbl, f) = i - 1
       THEN r[CHOOSE f \in Mapped(tbl) : PosOf(tbl, f) = i - 1]
       ELSE Undef]

setParsedProperties(this, parsedData) ==
  [f \in DOMAIN this |-> IF f \in DOMAIN parsedData THEN parsedData[f] ELSE this[f]]

---------------------------------------------------------------------------
(* LedgerEntry *)

WALLET == <<"w", "a", "l", "l", "e", "t">>

\* takes the piece after the first "wallet"
LedgerEntry_constructor_firstPiece(d) ==
  LET this0 == normalizeOne(d, fields)
      this1 == [this0 EXCEPT !["wallet"] = Null]
      description == this1["description"]
  IN IF isString(description) /\ ~isEmpty(description)
       THEN LET spl == split(description.s, WALLET)
            IN [this1 EXCEPT !["wallet"] =
                  IF Len(spl) > 1 THEN Str(trim(spl[2])) ELSE Null]
       ELSE this1

\* leaves out the trim
LedgerEntry_constructor_noTrim(d) ==
  LET this0 == normalizeOne(d, fields)
      this1 == [this0 EXCEPT !["wallet"] = Null]
      description == this1["description"]
  IN IF isString(description) /\ ~isEmpty(description)
       THEN LET spl == split(description.s, WALLET)
            IN [this1 EXCEPT !["wallet"] =
                  IF Len(spl) > 1 THEN Str(spl[Len(spl)]) ELSE Null]
       ELSE this1

\* leaves out the reset of wallet
LedgerEntry_constructor_keepWallet(d) ==
  LET this1 == normalizeOne(d, fields)
      description == this1["description"]
  IN IF isString(description) /\ ~isEmpty(description)
       THEN LET spl == split(description.s, WALLET)
            IN [this1 EXCEPT !["wallet"] =
                  IF Len(spl) > 1 THEN Str(trim(spl[Len(spl)])) ELSE Null]
       ELSE this1

LedgerEntry_constructor(d) ==
  LET this0 == normalizeOne(d, fields)
      this1 == [this0 EXCEPT !["wallet"] = Null]
      description == this1["description"]
  IN IF isString(description) /\ ~isEmpty(description)
       THEN LET spl == split(description.s, WALLET)
            IN [this1 EXCEPT !["wallet"] =
                  IF Len(spl) > 1 THEN Str(trim(spl[Len(spl)])) ELSE Null]
       ELSE this1

\* runs the derived step as the constructor does
LedgerEntry_unserialize_derives(d) ==
  IF isCollection(d)
    THEN List([i \in 1..Len(d.a) |-> LedgerEntry_constructor(d.a[i])])
    ELSE Rec(LedgerEntry_constructor(d))

LedgerEntry_unserialize(d) == unserializeWithDataDefinition(d, fields)

---------------------------------------------------------------------------
(* TradingTicker *)

TradingTicker_constructor(d) ==
  LET parsedData == normalizeOne(d, FIELD_INDEX_MAPPING)
      this0 == [f \in Names(FIELD_INDEX_MAPPING) |-> Undef]
  IN setParsedProperties(this0, parsedData)

TradingTicker_unserialize(d) == unserializeWithDataDefinition(d, FIELD_INDEX_MAPPING)

\* leaves out the default for a missing symbol
quote_noDefault(this) ==
  LET s == this["symbol"]
  IN IF isString(s) THEN Str(substring(s.s, 4, Len(s.s))) ELSE TypeError

quote(this) ==
  LET s == IF falsy(this["symbol"]) THEN Str(<<>>) ELSE this["symbol"]
  IN IF isString(s) THEN Str(substring(s.s, 4, Len(s.s))) ELSE TypeError

base(this) ==
  LET s == IF falsy(this["symbol"]) THEN Str(<<>>) ELSE this["symbol"]
  IN IF isString(s) THEN Str(substring(s.s, 1, 4)) ELSE TypeError

---------------------------------------------------------------------------
(* construct: one instance, or one instance per batch element *)

constructOne(e, d) ==
  CASE e = "LedgerEntry" -> LedgerEntry_constructor(d)
    [] e = "TradingTicker" -> TradingTicker_constructor(d)

construct(e, d) ==
  IF isCollection(d)
    THEN List([i \in 1..Len(d.a) |-> constructOne(e, d.a[i])])
    ELSE Rec(constructOne(e, d))

unserialize(e, d) ==
  CASE e = "LedgerEntry" -> LedgerEntry_unserialize(d)
    [] e = "TradingTicker" -> TradingTicker_unserialize(d)

---------------------------------------------------------------------------
(* Validation pipeline *)

\* the validator predicates: TRUE when the value violates the rule
Violates(kind, v) ==
  CASE kind = "number" -> v.t # "num"
    [] kind = "date" -> v.t # "num"
    [] kind = "amount" -> v.t # "num"
    [] kind = "price" -> ~(v.t = "num" /\ v.n > 0)
    [] kind = "currency" -> ~(v.t = "str" /\ Len(v.s) > 0)
    [] kind = "symbol" -> ~(v.t = "str" /\ Len(v.s) > 0)
    [] kind = "string" -> v.t # "str"

V(name, kind) == [name |-> name, kind |-> kind]

LedgerEntry_validators ==
  << V("id", "number"), V("currency", "currency"), V("mts", "date"),
     V("amount", "amount"), V("balance", "amount"), V("description", "string") >>

\* bid checked as a plain number
TradingTicker_validators_bidNumber ==
  << V("symbol", "symbol"), V("bid", "number"), V("bidSize", "amount"),
     V("ask", "price"), V("askSize", "amount"), V("dailyChange", "number"),
     V("dailyChangePerc", "number"), V("lastPrice", "price"),
     V("volume", "number"), V("high", "price"), V("low", "price") >>

TradingTicker_validators ==
  << V("symbol", "symbol"), V("bid", "price"), V("bidSize", "amount"),
     V("ask", "price"), V("askSize", "amount"), V("dailyChange", "number"),
     V("dailyChangePerc", "number"), V("lastPrice", "price"),
     V("volume", "number"), V("high", "price"), V("low", "price") >>

HasValidator(validators, f) == \E i \in DOMAIN validators : validators[i].name = f

KindOf(validators, f) ==
  validators[CHOOSE i \in DOMAIN validators : validators[i].name = f].kind

Valid == [t |-> "valid"]
Violation(f, i) == [t |-> "error", field |-> f, index |-> i]
NoData == [t |-> "error", field |-> "", index |-> -1]

Call(i, f) == [index |-> i, field |-> f]

IsAbsentOrEmpty(v) ==
  \/ v \in {Undef, Null}
  \/ v.t = "arr" /\ Len(v.a) = 0
  \/ v.t = "obj" /\ DOMAIN v.o = {}

\* the records a validate call walks
recordsOf(d, tbl) ==
  IF isCollection(d)
    THEN [i \in 1..Len(d.a) |-> normalizeOne(d.a[i], tbl)]
    ELSE <<normalizeOne(d, tbl)>>

RECURSIVE walk(_, _, _, _, _, _)
walk(recs, tbl, validators, i, j, log) ==
  IF i > Len(recs) THEN [result |-> Valid, invoked |-> log]
  ELSE IF j > Len(tbl) THEN walk(recs, tbl, validators, i + 1, 1, log)
  ELSE IF ~HasValidator(validators, tbl[j].name)
    THEN walk(recs, tbl, validators, i, j + 1, log)
  ELSE LET f == tbl[j].name
           log2 == Append(log, Call(i - 1, f))
       IN IF Violates(KindOf(validators, f), recs[i][f])
            THEN [result |-> Violation(f, i - 1), invoked |-> log2]
            ELSE walk(recs, tbl, validators, i, j + 1, log2)

validateWithDataDefinition(d, tbl, validators) ==
  IF \/ IsAbsentOrEmpty(d)
     \/ isArray(d) /\ \A i \in 1..Len(d.a) : IsAbsentOrEmpty(d.a[i])
    THEN [result |-> NoData, invoked |-> <<>>]
    ELSE walk(recordsOf(d, tbl), tbl, validators, 1, 1, <<>>)

\* takes missing data for valid
LedgerEntry_validate_emptyOk(d) ==
  IF \/ IsAbsentOrEmpty(d)
     \/ isArray(d) /\ \A i \in 1..Len(d.a) : IsAbsentOrEmpty(d.a[i])
    THEN [result |-> Valid, invoked |-> <<>>]
    ELSE validateWithDataDefinition(d, fields, LedgerEntry_validators)

LedgerEntry_validate(d) ==
  validateWithDataDefinition(d, fields, LedgerEntry_validators)

TradingTicker_validate(d) ==
  validateWithDataDefinition(d, FIELD_INDEX_MAPPING, TradingTicker_validators)

validate(e, d) ==
  CASE e = "LedgerEntry" -> LedgerEntry_validate(d)
    [] e = "TradingTicker" -> TradingTicker_validate(d)

ValidatorsOf(e) ==
  CASE e = "LedgerEntry" -> LedgerEntry_validators
    [] e = "TradingTicker" -> TradingTicker_validators

---------------------------------------------------------------------------
(* Inputs of the checked instance *)

Missing == [t |-> "missing"]

\* a named-field object holding the keys of m that are given
ObjOf(m) == Obj([k \in {j \in DOMAIN m : m[j] # Missing} |-> m[k]])

Pieces ==
  {WALLET, <<" ">>, <<"m">>, <<" ", "m", " ">>, <<"w", "a", "l">>, <<"l", "e", "t">>}

RECURSIVE Descs(_)
Descs(n) ==
  IF n = 0 THEN {<<>>}
  ELSE Descs(n - 1) \cup {d \o p : d \in Descs(n - 1), p \in Pieces}

DescSet == Descs(MaxPieces)

ExampleDescription ==
  <<"T", "r", "a", "n", "s", "f", "e", "r", " ", "f", "r", "o", "m", " ", "w", "a", "l", "l", "e", "t", " ", "m", "a", "r", "g", "i", "n">>

ExampleInput ==
  Arr(<< Num(10), Str(<<"U", "S", "D">>), Null, Num(10000), Null, Num(505),
         Num(2000), Null, Str(ExampleDescription) >>)

ExampleRecord ==
  [id |-> Num(10), currency |-> Str(<<"U", "S", "D">>), mts |-> Num(10000),
   amount |-> Num(505), balance |-> Num(2000),
   description |-> Str(ExampleDescription)]

tBTCUSD == Str(<<"t", "B", "T", "C", "U", "S", "D">>)

SlotVals == {Null, Num(10)}

EmptyInputs == {Null, Undef, Arr(<<>>), Obj(<<>>)}

LedgerObjInputs ==
  { ObjOf([id |-> i, amount |-> a, description |-> d, wallet |-> w, memo |-> i]) :
      i \in {Missing, Num(10)}, a \in {Missing, Num(0)},
      w \in {Missing, Str(<<"x">>)},
      d \in {Str(x) : x \in DescSet \cup {ExampleDescription}}
              \cup {Missing, Null, Num(10)} }

LedgerArrInputs ==
  {ExampleInput} \cup
  UNION { { Arr([i \in 1..n |-> IF i = 9 THEN d ELSE a[i]]) :
              a \in [1..n -> SlotVals],
              d \in {Null, Num(10), Str(ExampleDescription), Str(<<"m">>)} } :
          n \in 0..(9 + MaxExtra) }

TickerArrInputs ==
  UNION { { Arr([i \in 1..n |-> IF i = 1 /\ a[i] = Null THEN tBTCUSD ELSE a[i]]) :
              a \in [1..n -> SlotVals] } :
          n \in 0..(11 + MaxExtra) }

TickerSymbolInputs ==
  { ObjOf([symbol |-> v, bid |-> Num(10)]) :
      v \in {Missing, Null, Num(0), Num(10), Str(<<>>), Str(<<"t", "B", "T">>), tBTCUSD} }
  \cup {Arr(<<tBTCUSD, Num(10)>>)} \cup EmptyInputs

\* per-field choice between a value its validator accepts and one it rejects
LedgerCheckInputs ==
  { ObjOf([id |-> i, currency |-> c, mts |-> m, amount |-> a, balance |-> b,
           description |-> d]) :
      i \in {Num(10), Null}, c \in {Str(<<"U", "S", "D">>), Str(<<>>)},
      m \in {Num(10000), Missing}, a \in {Num(505), Str(<<"m">>)},
      b \in {Num(2000), Null}, d \in {Str(ExampleDescription), Num(10)} }

TickerCheckInputs ==
  { ObjOf([symbol |-> s, bid |-> p[1], bidSize |-> q[1], ask |-> p[2],
           askSize |-> q[2], dailyChange |-> q[3], dailyChangePerc |-> q[4],
           lastPrice |-> p[3], volume |-> q[5], high |-> p[4], low |-> p[5]]) :
      s \in {tBTCUSD, Missing},
      p \in [1..5 -> {Num(10), Num(-10)}],
      q \in [1..5 -> {Num(20), Null}] }

BatchElems(e) ==
  CASE e = "LedgerEntry" ->
         { ExampleInput, Arr(<<Num(10)>>), Obj(<<>>),
           ObjOf([id |-> Num(10), currency |-> Str(<<"U", "S", "D">>),
                  mts |-> Num(10000), amount |-> Num(505), balance |-> Num(2000),
                  description |-> Str(WALLET \o <<" ", "m", " ">> \o WALLET \o <<" ", "x">>),
                  wallet |-> Str(<<"x", "x">>)]),
           ObjOf([id |-> Num(10), currency |-> Str(<<"U", "S", "D">>),
                  mts |-> Num(10000), amount |-> Null, balance |-> Num(2000),
                  description |-> Str(<<"m">>), wallet |-> Missing]) }
    [] e = "TradingTicker" ->
         { Arr(<<tBTCUSD, Num(10), Num(20), Num(10), Num(20), Num(20), Num(20),
                 Num(10), Num(20), Num(10), Num(10)>>),
           Arr(<<tBTCUSD, Num(-10)>>), Obj(<<>>),
           ObjOf([symbol |-> tBTCUSD, bid |-> Num(10), bidSize |-> Num(20),
                  ask |-> Num(10), askSize |-> Num(20), dailyChange |-> Num(20),
                  dailyChangePerc |-> Num(20), lastPrice |-> Num(10),
                  volume |-> Num(20), high |-> Num(10), low |-> Num(10)]),
           ObjOf([symbol |-> tBTCUSD, bid |-> Num(10), bidSize |-> Num(20),
                  ask |-> Num(-10)]) }

Batches(e) == UNION { {Arr(b) : b \in [1..n -> BatchElems(e)]} : n \in 1..MaxBatch }

EmptyBatches ==
  { Arr(<<Null, Null>>), Arr(<<Undef>>), Arr(<<Arr(<<>>)>>),
    Arr(<<Arr(<<>>), Obj(<<>>)>>), Arr(<<Obj(<<>>)>>) }

Entities == {"LedgerEntry", "TradingTicker"}

Inputs(e) ==
  CASE e = "LedgerEntry" ->
         LedgerObjInputs \cup LedgerArrInputs \cup EmptyInputs \cup Batches(e)
    [] e = "TradingTicker" ->
         TickerArrInputs \cup TickerSymbolInputs \cup Batches(e)

CheckInputs(e) ==
  CASE e = "LedgerEntry" ->
         LedgerCheckInputs \cup EmptyInputs \cup EmptyBatches \cup Batches(e)
           \cup {ExampleInput}
    [] e = "TradingTicker" ->
         TickerCheckInputs \cup EmptyInputs \cup EmptyBatches \cup Batches(e)

\* fully populated records: field k of the table holds (a + k * b) % ValMod
Populated(e) ==
  LET tbl == TableOf(e)
  IN { [f \in Mapped(tbl) |->
          Num(10 * ((a + b * (CHOOSE k \in DOMAIN tbl : tbl[k].name = f)) % ValMod))] :
       a \in 0..(ValMod - 1), b \in 0..(ValMod - 1) }

---------------------------------------------------------------------------
(* The calls.  Every operation is a synchronous call on its own input;    *)
(* Return hands control back to the caller.                                *)

Init ==
  /\ op = "idle"
  /\ entity = "none"
  /\ data = Undef
  /\ out = Undef
  /\ invoked = <<>>

Construct ==
  /\ op = "idle"
  /\ \E e \in Entities : \E d \in Inputs(e) :
       /\ op' = "construct"
       /\ entity' = e
       /\ data' = d
       /\ out' = construct(e, d)
  /\ UNCHANGED invoked

Unserialize ==
  /\ op = "idle"
  /\ \E e \in Entities : \E d \in Inputs(e) :
       /\ op' = "unserialize"
       /\ entity' = e
       /\ data' = d
       /\ out' = unserialize(e, d)
  /\ UNCHANGED invoked

Validate ==
  /\ op = "idle"
  /\ \E e \in Entities : \E d \in CheckInputs(e) :
       /\ op' = "validate"
       /\ entity' = e
       /\ data' = d
       /\ out' = validate(e, d).result
       /\ invoked' = validate(e, d).invoked

Quote ==
  /\ op = "idle"
  /\ \E d \in TickerSymbolInputs :
       /\ op' = "quote"
       /\ entity' = "TradingTicker"
       /\ data' = d
       /\ out' = quote(TradingTicker_constructor(d))
  /\ UNCHANGED invoked

Base ==
  /\ op = "idle"
  /\ \E d \in TickerSymbolInputs :
       /\ op' = "base"
       /\ entity' = "TradingTicker"
       /\ data' = d
       /\ out' = base(TradingTicker_constructor(d))
  /\ UNCHANGED invoked

Serialize ==
  /\ op = "idle"
  /\ \E e \in Entities \cup {"FundingLoan"} : \E r \in Populated(e) :
       /\ op' = "serialize"
       /\ entity' = e
       /\ data' = Rec(r)
       /\ out' = Arr(serialize(r, TableOf(e)))
  /\ UNCHANGED invoked

\* the serialized form is normalized again; data keeps the original record
Reparse ==
  /\ op = "serialize"
  /\ op' = "roundtrip"
  /\ out' = unserializeWithDataDefinition(out, TableOf(entity))
  /\ UNCHANGED <<entity, data, invoked>>

Return ==
  /\ op \notin {"idle", "serialize"}
  /\ op' = "idle"
  /\ entity' = "none"
  /\ data' = Undef
  /\ out' = Undef
  /\ invoked' = <<>>

Next ==
  \/ Construct
  \/ Unserialize
  \/ Validate
  \/ Quote
  \/ Base
  \/ Serialize
  \/ Reparse
  \/ Return

Spec == Init /\ [][Next]_vars

---------------------------------------------------------------------------
(* Vocabulary of the properties *)

Single == ~isCollection(data)

\* the description a single LedgerEntry input carries
InDescription(d) ==
  CASE d.t = "arr" -> At(d.a, 8)
    [] d.t = "obj" -> IF "description" \in DOMAIN d.o THEN d.o["description"] ELSE Undef
    [] OTHER -> Undef

WalletHits(s) == {k \in 1..Len(s) : Occurs(s, WALLET, k)}

LastWallet(s) == CHOOSE k \in WalletHits(s) : \A j \in WalletHits(s) : j <= k

AfterLastWallet(s) == SubSeq(s, LastWallet(s) + Len(WALLET), Len(s))

\* t is s without its leading and trailing whitespace
IsTrimOf(t, s) ==
  \E a \in 1..(Len(s) + 1) : \E b \in 0..Len(s) :
    /\ a <= b + 1
    /\ t = SubSeq(s, a, b)
    /\ \A i \in 1..(a - 1) : IsSpace(s[i])
    /\ \A i \in (b + 1)..Len(s) : IsSpace(s[i])
    /\ a <= b => ~IsSpace(s[a]) /\ ~IsSpace(s[b])

NamesWallet(v) == v.t = "str" /\ v.s # <<>> /\ WalletHits(v.s) # {}

\* w is the wallet a description v determines
WalletFor(w, v) ==
  IF NamesWallet(v)
    THEN w.t = "str" /\ IsTrimOf(w.s, AfterLastWallet(v.s))
    ELSE w = Null

LedgerConstructed == op = "construct" /\ entity = "LedgerEntry" /\ Single

---------------------------------------------------------------------------
(* C1: a LedgerEntry constructed from one record whose description is a   *)
(* non-empty string containing "wallet" has as wallet the text after the  *)
(* last occurrence of "wallet" in the description, trimmed.               *)
C1_WalletAfterLastOccurrence ==
  (LedgerConstructed /\ NamesWallet(InDescription(data)))
    => /\ out.r["wallet"].t = "str"
       /\ IsTrimOf(out.r["wallet"].s, AfterLastWallet(InDescription(data).s))

C1_Witness ==
  /\ LedgerConstructed
  /\ NamesWallet(InDescription(data))
  /\ Cardinality(WalletHits(InDescription(data).s)) >= 2
  /\ AfterLastWallet(InDescription(data).s) = <<" ", "m", " ">>
  /\ out.r["wallet"] = Str(<<"m">>)

(* C7: every LedgerEntry constructed from a record whose description is a *)
(* non-empty string has a populated (non-null) wallet.                    *)
C7_WalletPopulatedWheneverDescribed ==
  (LedgerConstructed /\ isString(InDescription(data)) /\ InDescription(data).s # <<>>)
    => ~IsUnset(out.r["wallet"])

C3_PositionalNormalization ==
  (op = "unserialize" /\ data.t = "arr" /\ Single) =>
    /\ out.t = "rec"
    /\ entity = "LedgerEntry" =>
         /\ DOMAIN out.r =
              {"id", "currency", "mts", "amount", "balance", "description", "wallet"}
         /\ out.r["id"] = At(data.a, 0)
         /\ out.r["currency"] = At(data.a, 1)
         /\ out.r["mts"] = At(data.a, 3)
         /\ out.r["amount"] = At(data.a, 5)
         /\ out.r["balance"] = At(data.a, 6)
         /\ out.r["description"] = At(data.a, 8)
         /\ out.r["wallet"] = Undef
         /\ data = ExampleInput =>
              \A f \in DOMAIN ExampleRecord : out.r[f] = ExampleRecord[f]
    /\ entity = "TradingTicker" =>
         /\ DOMAIN out.r =
              {"symbol", "bid", "bidSize", "ask", "askSize", "dailyChange",
               "dailyChangePerc", "lastPrice", "volume", "high", "low"}
         /\ out.r["symbol"] = At(data.a, 0)
         /\ out.r["bid"] = At(data.a, 1)
         /\ out.r["bidSize"] = At(data.a, 2)
         /\ out.r["ask"] = At(data.a, 3)
         /\ out.r["askSize"] = At(data.a, 4)
         /\ out.r["dailyChange"] = At(data.a, 5)
         /\ out.r["dailyChangePerc"] = At(data.a, 6)
         /\ out.r["lastPrice"] = At(data.a, 7)
         /\ out.r["volume"] = At(data.a, 8)
         /\ out.r["high"] = At(data.a, 9)
         /\ out.r["low"] = At(data.a, 10)

\* every unmapped slot is filled, a mapped one is null, one past 8 exists
C3_Witness ==
  /\ op = "unserialize"
  /\ entity = "LedgerEntry"
  /\ data.t = "arr"
  /\ Len(data.a) = 10
  /\ \A p \in {2, 4, 7, 9} : At(data.a, p) = Num(10)
  /\ out.r["mts"] = Null
  /\ out.r["amount"] = Num(10)
  /\ out.r["description"] = Str(ExampleDescription)

(* C4: normalizing the serialized form of a fully populated record gives  *)
(* back every position-mapped field, for the LedgerEntry, TradingTicker   *)
(* and FundingLoan tables; the serialized FundingLoan leaves slots 9, 10  *)
(* and 17 absent, and the absence-marked wallet takes no part.            *)
C4_RoundTrip ==
  /\ op = "roundtrip" =>
       /\ out.t = "rec"
       /\ \A f \in DOMAIN data.r : out.r[f] = data.r[f]
       /\ entity = "LedgerEntry" => out.r["wallet"] = Undef
  /\ (op = "serialize" /\ entity = "FundingLoan") =>
       /\ Len(out.a) = 21
       /\ \A p \in {9, 10, 17} : At(out.a, p) = Undef
       /\ \A p \in (0..20) \ {9, 10, 17} : At(out.a, p) # Undef

C4_Witness ==
  /\ op = "roundtrip"
  /\ entity = "FundingLoan"
  /\ Cardinality(DOMAIN data.r) = 18
  /\ data.r["rate"] # data.r["period"]
  /\ data.r["renew"] # data.r["rateReal"]
  /\ out.r["rateReal"] = data.r["rateReal"]

(* C5: constructing from null, undefined, [] or {} raises nothing and     *)
(* gives an instance whose declared fields are all unset (never 0 or "");  *)
(* the LedgerEntry wallet is null, and base() and quote() of such a        *)
(* TradingTicker are the empty string.                                    *)
C5_ShapeTolerance ==
  /\ (op = "construct" /\ data \in {Null, Undef, Arr(<<>>), Obj(<<>>)}) =>
       /\ out.t = "rec"
       /\ DOMAIN out.r = Names(TableOf(entity))
       /\ \A f \in DOMAIN out.r : IsUnset(out.r[f])
       /\ entity = "LedgerEntry" => out.r["wallet"] = Null
  /\ (op \in {"quote", "base"} /\ data \in {Null, Undef, Arr(<<>>), Obj(<<>>)}) =>
       out = Str(<<>>)

C5_Witness ==
  /\ op = "quote"
  /\ data = Arr(<<>>)
  /\ out = Str(<<>>)

(* C6: validating an empty batch, or a batch whose elements are all       *)
(* absent or empty, returns a violation and never "valid".                *)
C6_EmptyBatchRejected ==
  (/\ op = "validate"
   /\ \/ IsAbsentOrEmpty(data)
      \/ data.t = "arr" /\ \A i \in 1..Len(data.a) : IsAbsentOrEmpty(data.a[i]))
    => out.t = "error"

C6_Witness ==
  /\ op = "validate"
  /\ entity = "LedgerEntry"
  /\ data = Arr(<<Arr(<<>>), Obj(<<>>)>>)
  /\ out.t = "error"

(* C2: validation is first-failure.  Validators are invoked record by    *)
(* record in batch order and, within a record, field by field; the first  *)
(* one that reports a violation ends the call, which returns that one     *)
(* violation with its field name and zero-based batch index, and nothing  *)
(* after it is invoked; with no violation every validator has run and the *)
(* result is valid.  A TradingTicker {symbol: "tBTCUSD", bid: -1, ...} is *)
(* rejected at bid after the validators of symbol and bid only.           *)
C2_FirstFailure ==
  op = "validate" =>
    LET vs == ValidatorsOf(entity)
        m == Len(vs)
        recs == recordsOf(data, TableOf(entity))
        n == Len(invoked)
        Fails(k) == Violates(KindOf(vs, invoked[k].field),
                             recs[invoked[k].index + 1][invoked[k].field])
    IN /\ out.t \in {"error", "valid"}
       /\ out = NoData => n = 0
       /\ \A k \in 1..n : invoked[k] = Call((k - 1) \div m, vs[((k - 1) % m) + 1].name)
       /\ \A k \in 1..(n - 1) : ~Fails(k)
       /\ (out.t = "error" /\ out # NoData) =>
            /\ n >= 1
            /\ out = Violation(invoked[n].field, invoked[n].index)
            /\ Fails(n)
       /\ out = Valid => (n = m * Len(recs) /\ ~Fails(n))
       /\ (/\ entity = "TradingTicker"
           /\ data.t = "obj"
           /\ normalizeOne(data, FIELD_INDEX_MAPPING)["symbol"] = tBTCUSD
           /\ normalizeOne(data, FIELD_INDEX_MAPPING)["bid"] = Num(-10))
            => /\ out = Violation("bid", 0)
               /\ invoked = <<Call(0, "symbol"), Call(0, "bid")>>

\* bid is rejected although later fields would be rejected too
C2_Witness ==
  /\ op = "validate"
  /\ entity = "TradingTicker"
  /\ data.t = "obj"
  /\ DOMAIN data.o = Names(FIELD_INDEX_MAPPING)
  /\ data.o["symbol"] = tBTCUSD
  /\ data.o["bid"] = Num(-10)
  /\ data.o["bidSize"] = Null
  /\ data.o["low"] = Num(-10)
  /\ out = Violation("bid", 0)
  /\ Len(invoked) = 2

C9_UnserializeAgreesWithConstructor ==
  (data.t = "arr" /\ Single) =>
    /\ op = "construct" =>
         \A f \in Mapped(TableOf(entity)) : out.r[f] = unserialize(entity, data).r[f]
    /\ op = "unserialize" =>
         /\ \A f \in Mapped(TableOf(entity)) : out.r[f] = constructOne(entity, data)[f]
         /\ entity = "LedgerEntry" => IsUnset(out.r["wallet"])

C9_Witness ==
  /\ op = "unserialize"
  /\ entity = "LedgerEntry"
  /\ data = ExampleInput
  /\ IsUnset(out.r["wallet"])
  /\ constructOne(entity, data)["wallet"] = Str(<<"m", "a", "r", "g", "i", "n">>)

====
